---- MODULE Spec2Model ----
(***************************************************************************)
(* Model of two parts of the renderer core:                                *)
(*   - Configuration (packages/core/src/configuration/config.ts): the      *)
(*     key-value store with strict-mode validation and the wait lists      *)
(*     behind onceGot / onGot;                                             *)
(*   - RendererMain / createRenderer (the renderer bootstrap): the         *)
(*     lifecycle-phase driven start-up chain.                              *)
(*                                                                         *)
(* JavaScript runs one handler at a time, so every public call of          *)
(* Configuration is one action, computed to completion by operators that   *)
(* follow the code statement by statement, the callbacks it invokes        *)
(* included.  A callback may itself call onGot, onceGot or an unsubscribe  *)
(* function of the store (callbacks "g", "h" and "o" below); callbacks     *)
(* that call set from inside a notification are not part of the modelled   *)
(* environment.                                                            *)
(***************************************************************************)
EXTENDS Integers, Sequences, FiniteSets, TLC

(***************************************************************************)
(* Bounds of the model.                                                    *)
(***************************************************************************)
MaxCalls == 4  \* calls of the store's methods and of unsubscribe functions
MaxRuns == 2   \* calls of the bootstrap function that createRenderer returns

(***************************************************************************)
(* Values.  "undefined" is JavaScript's undefined.                         *)
(***************************************************************************)
Undefined == "undefined"
Values == {"v1", "v2"}
Vals == Values \cup {Undefined}
Keys == {"a", "b"}

\* config.ts:7
STRICT_PLUGIN_MODE_DEFAULT == TRUE

(***************************************************************************)
(* Results of a setterValidator: boolean | string (config.ts:11).          *)
(***************************************************************************)
VTrue == [type |-> "boolean", val |-> "true"]
VFalse == [type |-> "boolean", val |-> "false"]
VEmpty == [type |-> "string", val |-> ""]
VReason == [type |-> "string", val |-> "not predefined"]

\* config.ts:16, the validator used when the options give none
DefaultValidator == [k \in Keys, v \in Vals |-> VTrue]

\* A validator given in the options: it refuses "v2" under "a" with false,
\* "v1" under "b" with a reason and "v2" under "b" with the empty string.
SomeValidator ==
  [k \in Keys, v \in Vals |->
     CASE k = "a" /\ v = "v2" -> VFalse
       [] k = "b" /\ v = "v1" -> VReason
       [] k = "b" /\ v = "v2" -> VEmpty
       [] OTHER -> VTrue]

\* The options a store is constructed with (config.ts:9-12).  strictMode is
\* "undefined", "true" or "false"; hasValidator tells whether setterValidator
\* is given.
NoOption == [strictMode |-> "undefined", hasValidator |-> FALSE, setterValidator |-> DefaultValidator]
Loose == [strictMode |-> "false", hasValidator |-> TRUE, setterValidator |-> SomeValidator]
Strict == [strictMode |-> "undefined", hasValidator |-> TRUE, setterValidator |-> SomeValidator]

\* The initial snapshots a store is constructed with (config.ts:28-31).
Empty == [k \in Keys |-> Undefined]
WithA == [k \in Keys |-> IF k = "a" THEN "v1" ELSE Undefined]

\* The constructor calls new Configuration(config, options) of the model.
Constructions ==
  { [config |-> Empty, options |-> NoOption],
    [config |-> Empty, options |-> Loose],
    [config |-> Empty, options |-> Strict],
    [config |-> WithA, options |-> Strict] }

(***************************************************************************)
(* Callbacks handed to onGot.  "f" only receives the value.  "g" calls     *)
(* the unsubscribe function of its own first subscription on key CbKey,    *)
(* once that function has been returned.  "h" calls onGot(CbKey, f).  "o"  *)
(* calls onceGot(CbKey).                                                   *)
(***************************************************************************)
Fns == {"f", "g", "h", "o"}
CbKey == "a"

\* The onGot calls the program makes: g, h and o are written for CbKey and
\* are subscribed to it.
OnGotArgs == {<<"a", "f">>, <<"b", "f">>, <<CbKey, "g">>, <<CbKey, "h">>, <<CbKey, "o">>}

FnResolver(fn) == [kind |-> "fn", fn |-> fn, pid |-> 0]

\* the resolve function of the promise created by the onceGot call number sid
PromiseResolver(sid) == [kind |-> "promise", fn |-> "", pid |-> sid]

(***************************************************************************)
(* Arguments of setConfig: the kind of the argument and its own            *)
(* enumerable keys in Object.keys order.                                   *)
(***************************************************************************)
Entry(k, v) == [key |-> k, value |-> v]

SetConfigArgs ==
  { [kind |-> "plainObject", entries |-> <<Entry("b", "v1"), Entry("a", "v1")>>],
    [kind |-> "nullProto", entries |-> <<Entry("a", "v2"), Entry("b", "v2")>>],
    [kind |-> "classInstance", entries |-> <<Entry("a", "v2")>>] }

\* lodash isPlainObject: an object created by the Object constructor or one
\* with a null prototype (config.ts:90)
IsPlainObject(arg) == arg.kind \in {"plainObject", "nullProto"}

(***************************************************************************)
(* The renderer bootstrap.                                                 *)
(***************************************************************************)
\* LifecyclePhase, in its order
Uninitialized == 1
OptionsResolved == 2
Ready == 3
AfterInitPackageLoad == 4

\* an optional array of the options
Absent == [given |-> FALSE, list |-> <<>>]
Given(list) == [given |-> TRUE, list |-> list]

\* AppOptions handed to the bootstrap function
AppOptionsSet ==
  { [schema |-> "schemaA", mode |-> Undefined, plugins |-> Absent, packages |-> Absent],
    [schema |-> "schemaB", mode |-> "development",
     plugins |-> Given(<<"pluginA">>), packages |-> Given(<<"packageA">>)] }

\* render objects an adapter resolves with: the fields they carry
RenderObjects == {{"foo"}, {"foo", "mode"}}

NoOptions == [schema |-> "", mode |-> Undefined, plugins |-> Absent, packages |-> Absent]

NoApp == [built |-> FALSE, options |-> NoOptions, mode |-> "", schema |-> "",
          packageManager |-> "", fields |-> {}, use |-> "", frozen |-> FALSE]

IdleRun == [pc |-> "idle", options |-> NoOptions, released |-> FALSE,
            regP |-> "none", regArg |-> <<>>, loadP |-> "none", loadArg |-> <<>>,
            result |-> "none", app |-> NoApp, trace |-> <<>>]

VARIABLES
  strictMode,       \* #strictMode
  setterValidator,  \* #setterValidator
  config,           \* #config
  waits,            \* #waits; a key without an entry in the Map holds <<>>
  subs,             \* history: one record per onGot / onceGot call
  events,           \* history: what the last call did, in order
  last,             \* history: the last call and its arguments
  nCalls,           \* number of calls of the store made
  renderer,         \* createRenderer: "none", "created" or "failed"
  phase,            \* lifeCycleService.phase
  phaseWaits,       \* lifeCycleService: the pending when() promises, in order
  ctor,             \* the continuation registered by the constructor
  adapterP,         \* the promise of the adapter invocation
  main,             \* RendererMain's fields mode, initOptions, renderObject, adapter
  runs,             \* one record per call of the bootstrap function
  nRuns             \* number of calls of the bootstrap function made

cvars == <<strictMode, setterValidator, config, waits, subs, events, last, nCalls>>

rvars == <<renderer, phase, phaseWaits, ctor, adapterP, main, runs, nRuns>>

vars == <<strictMode, setterValidator, config, waits, subs, events, last, nCalls,
          renderer, phase, phaseWaits, ctor, adapterP, main, runs, nRuns>>

(***************************************************************************)
(* Sequence helpers.                                                       *)
(***************************************************************************)
\* the sequence of the first n values of f, built element by element
RECURSIVE Take(_, _)
Take(f, n) == IF n = 0 THEN <<>> ELSE Append(Take(f, n - 1), f[n])

\* Array.prototype.reverse (config.ts:135)
Reverse(s) == Take([i \in 1..Len(s) |-> s[Len(s) + 1 - i]], Len(s))

\* Array.prototype.splice(i, 1), i counted from 1
RemoveAt(s, i) == SubSeq(s, 1, i - 1) \o SubSeq(s, i + 1, Len(s))

(***************************************************************************)
(* The store as one record, threaded through the operators below:          *)
(* config and waits are the fields of the object, subs and events the      *)
(* history.                                                                *)
(***************************************************************************)
World == [config |-> config, waits |-> waits, subs |-> subs, events |-> events]

Ev(e, sid, key, val) == [e |-> e, sid |-> sid, key |-> key, val |-> val]

Log(w, e, sid, key, val) == [w EXCEPT !.events = Append(@, Ev(e, sid, key, val))]

\* config.ts:52-54
Has(cfg, key) == cfg[key] # Undefined

\* config.ts:61-63, lodash get on a key without a path separator
Get(cfg, key, defaultValue) == IF cfg[key] = Undefined THEN defaultValue ELSE cfg[key]

\* config.ts:150-157; sid is the number of the registering call (history)
SetWait(w, key, resolve, once, sid) ==
  [w EXCEPT !.waits[key] = Append(@, [once |-> once, resolve |-> resolve, sid |-> sid])]

\* config.ts:159-173: every entry whose resolve is fn is spliced out, and an
\* emptied list is deleted from the Map
DelWait(w, key, fn) ==
  [w EXCEPT !.waits[key] = SelectSeq(@, LAMBDA e : e.resolve # fn)]

\* history of a registration
NewSub(kind, key, fn, nested) ==
  [kind |-> kind, key |-> key, fn |-> fn, nested |-> nested,
   seen |-> Undefined, returned |-> FALSE, cancelled |-> FALSE, offs |-> 0,
   got |-> <<>>, due |-> <<>>, now |-> <<>>,
   pstate |-> "none", pvalue |-> Undefined, rcalls |-> 0]

\* the first completed subscription of g on CbKey, 0 if there is none
GSid(w) ==
  LET S == {s \in 1..Len(w.subs) :
              /\ w.subs[s].kind = "onGot" /\ w.subs[s].key = CbKey
              /\ w.subs[s].fn = "g" /\ w.subs[s].returned}
  IN IF S = {} THEN 0 ELSE CHOOSE s \in S : \A t \in S : s <= t

\* config.ts:125-127, the function returned by the onGot call number sid.
\* History: the call is counted, and every registration of that callback on
\* that key whose setWait has run is marked as cancelled.
CallOff(w, sid) ==
  LET key == w.subs[sid].key
      fn == w.subs[sid].fn
      w1 == DelWait(w, key, FnResolver(fn))
      marked == [s \in 1..Len(w1.subs) |->
                   IF w1.subs[s].kind = "onGot" /\ w1.subs[s].key = key /\ w1.subs[s].fn = fn
                   THEN [w1.subs[s] EXCEPT !.cancelled = @ \/ w1.subs[s].returned,
                                          !.offs = IF s = sid THEN @ + 1 ELSE @]
                   ELSE w1.subs[s]]
  IN Log([w1 EXCEPT !.subs = Take(marked, Len(w1.subs))], "off", sid, key, Undefined)

\* config.ts:103-111; nested tells whether a callback makes the call
OnceGotOp(w, key, nested) ==
  LET sid == Len(w.subs) + 1
      val == w.config[key]
      sub == [NewSub("onceGot", key, "", nested) EXCEPT !.seen = val]
  IN IF val # Undefined
     THEN [w EXCEPT !.subs = Append(@, [sub EXCEPT !.pstate = "resolved", !.pvalue = val,
                                                   !.now = <<val>>, !.returned = TRUE])]
     ELSE LET w0 == [w EXCEPT !.subs = Append(@, [sub EXCEPT !.pstate = "pending",
                                                             !.returned = TRUE])]
          IN Log(SetWait(w0, key, PromiseResolver(sid), TRUE, sid), "reg", sid, key, Undefined)

RECURSIVE Invoke(_, _, _, _, _)
RECURSIVE OnGotOp(_, _, _, _)

\* A call resolve(val) of the callable of registration sid: by is "call"
\* when notifyGot makes it (config.ts:138) and "now" when onGot makes it
\* (config.ts:122).
Invoke(w, resolve, sid, val, by) ==
  LET key == w.subs[sid].key
      w1 == Log(w, by, sid, key, val)
      w2 == [w1 EXCEPT !.subs[sid] =
                IF by = "call" THEN [@ EXCEPT !.got = Append(@, val)]
                ELSE [@ EXCEPT !.now = Append(@, val)]]
  IN CASE resolve.kind = "promise" ->
            [w2 EXCEPT !.subs[sid] =
               [@ EXCEPT !.rcalls = @ + 1,
                         !.pstate = "resolved",
                         !.pvalue = IF w2.subs[sid].pstate = "pending" THEN val ELSE @]]
       [] resolve.kind = "fn" /\ resolve.fn = "f" -> w2
       [] resolve.kind = "fn" /\ resolve.fn = "g" ->
            IF GSid(w2) # 0 THEN CallOff(w2, GSid(w2)) ELSE w2
       [] resolve.kind = "fn" /\ resolve.fn = "h" -> OnGotOp(w2, CbKey, "f", TRUE)
       [] resolve.kind = "fn" /\ resolve.fn = "o" -> OnceGotOp(w2, CbKey, TRUE)

\* config.ts:119-128
OnGotOp(w, key, fn, nested) ==
  LET sid == Len(w.subs) + 1
      val == w.config[key]
      w0 == [w EXCEPT !.subs = Append(@, [NewSub("onGot", key, fn, nested) EXCEPT !.seen = val])]
      w1 == IF val # Undefined THEN Invoke(w0, FnResolver(fn), sid, val, "now") ELSE w0
      w2 == SetWait(w1, key, FnResolver(fn), FALSE, sid)
  IN [Log(w2, "reg", sid, key, Undefined) EXCEPT !.subs[sid].returned = TRUE]

\* config.ts:139-141
SpliceOnce(rev, i) == IF rev[i].once THEN RemoveAt(rev, i) ELSE rev

LoopStart_short(rev) == Len(rev) - 1

\* config.ts:136-137: with i = waits.length, while (i--) first uses the last
\* index of the array (Len in a sequence counted from 1)
LoopStart(rev) == Len(rev)

\* config.ts:137-142: i runs from the last index of the reversed copy down
\* to the first; rev is the reversed copy, spliced as the loop goes
RECURSIVE NotifyLoop(_, _, _, _)
NotifyLoop(w, key, rev, i) ==
  IF i = 0 THEN [w |-> w, rev |-> rev]
  ELSE LET w1 == Invoke(w, rev[i].resolve, rev[i].sid, Get(w.config, key, Undefined), "call")
       IN NotifyLoop(w1, key, SpliceOnce(rev, i), i - 1)

\* config.ts:130-148
NotifyGot(w, key) ==
  IF w.waits[key] = <<>> THEN w
  ELSE LET rev == Reverse(w.waits[key])
           r == NotifyLoop(w, key, rev, LoopStart(rev))
       IN [r.w EXCEPT !.waits[key] = r.rev]

Rejected_falsy(valid) == valid = VFalse \/ (valid.type = "string" /\ valid.val # "")

\* config.ts:73
Rejected(valid) == valid = VFalse \/ valid.type = "string"

\* history: a successful set(key, value) is due to every registration made
\* on key so far
Due(w, key, value) ==
  [w EXCEPT !.subs = Take([s \in 1..Len(w.subs) |->
                             IF w.subs[s].key = key
                             THEN [w.subs[s] EXCEPT !.due = Append(@, value)]
                             ELSE w.subs[s]], Len(w.subs))]

\* set as it would be if a rejected write still notified the waiters
SetOp_notifyAnyway(w, key, value) ==
  IF strictMode /\ Rejected(setterValidator[key, value])
  THEN NotifyGot(Log(w, "reject", 0, key, value), key)
  ELSE LET w1 == [w EXCEPT !.config[key] = value]
           w2 == Due(Log(w1, "write", 0, key, value), key, value)
       IN NotifyGot(w2, key)

\* config.ts:70-83
SetOp(w, key, value) ==
  IF strictMode /\ Rejected(setterValidator[key, value])
  THEN Log(w, "reject", 0, key, value)
  ELSE LET w1 == [w EXCEPT !.config[key] = value]
           w2 == Due(Log(w1, "write", 0, key, value), key, value)
       IN NotifyGot(w2, key)

\* config.ts:91-93, Object.keys(config).forEach
RECURSIVE SetEach(_, _, _)
SetEach(w, entries, i) ==
  IF i > Len(entries) THEN w
  ELSE SetEach(SetOp(w, entries[i].key, entries[i].value), entries, i + 1)

SetConfigOp_allOrNothing(w, arg) ==
  IF IsPlainObject(arg)
  THEN IF \E i \in 1..Len(arg.entries) :
            strictMode /\ Rejected(setterValidator[arg.entries[i].key, arg.entries[i].value])
       THEN w
       ELSE SetEach(w, arg.entries, 1)
  ELSE w

\* config.ts:89-95
SetConfigOp(w, arg) ==
  IF IsPlainObject(arg) THEN SetEach(w, arg.entries, 1) ELSE w

(***************************************************************************)
(* The constructor (config.ts:28-46).                                      *)
(***************************************************************************)
ConstructStrictMode(options) ==
  IF options.strictMode = "false" THEN FALSE ELSE STRICT_PLUGIN_MODE_DEFAULT

ConstructValidator(options) ==
  IF options.hasValidator THEN options.setterValidator ELSE DefaultValidator

NoCall == [op |-> "new", key |-> "", value |-> Undefined, fn |-> "", sid |-> 0,
           arg |-> [kind |-> "null", entries |-> <<>>]]

ConfigInit ==
  \E new \in Constructions :
    /\ config = new.config
    /\ strictMode = ConstructStrictMode(new.options)
    /\ setterValidator = ConstructValidator(new.options)
    /\ waits = [k \in Keys |-> <<>>]
    /\ subs = <<>>
    /\ events = <<>>
    /\ last = NoCall
    /\ nCalls = 0

(***************************************************************************)
(* The calls of the store.                                                 *)
(***************************************************************************)
Start == [World EXCEPT !.events = <<>>]

Commit(w) ==
  /\ nCalls < MaxCalls
  /\ nCalls' = nCalls + 1
  /\ config' = w.config
  /\ waits' = w.waits
  /\ subs' = w.subs
  /\ events' = w.events
  /\ UNCHANGED <<strictMode, setterValidator>>
  /\ UNCHANGED rvars

Set(key, value) ==
  /\ Commit(SetOp(Start, key, value))
  /\ last' = [NoCall EXCEPT !.op = "set", !.key = key, !.value = value]

SetConfig(arg) ==
  /\ Commit(SetConfigOp(Start, arg))
  /\ last' = [NoCall EXCEPT !.op = "setConfig", !.arg = arg]

OnceGot(key) ==
  /\ Commit(OnceGotOp(Start, key, FALSE))
  /\ last' = [NoCall EXCEPT !.op = "onceGot", !.key = key, !.sid = Len(subs) + 1]

OnGot(key, fn) ==
  /\ Commit(OnGotOp(Start, key, fn, FALSE))
  /\ last' = [NoCall EXCEPT !.op = "onGot", !.key = key, !.fn = fn, !.sid = Len(subs) + 1]

\* a call of the function that the onGot call number sid returned to the
\* program (the one h obtains inside a callback is dropped by h)
Unsubscribe(sid) ==
  /\ subs[sid].kind = "onGot"
  /\ ~subs[sid].nested
  /\ Commit(CallOff(Start, sid))
  /\ last' = [NoCall EXCEPT !.op = "off", !.key = subs[sid].key, !.fn = subs[sid].fn,
                            !.sid = sid]

(***************************************************************************)
(* lifeCycleService (its source is not part of the files at hand; modelled *)
(* from the specification: when(target) is resolved at once if the phase   *)
(* has reached target, otherwise by the assignment that makes the phase    *)
(* reach or pass target; the setter itself accepts any phase).             *)
(***************************************************************************)
Proc(kind, run) == [kind |-> kind, run |-> run]

\* the waiters an assignment phase = p leaves pending
Kept(ws, p) == SelectSeq(ws, LAMBDA x : x.target > p)

\* the assignment phase = p resolves the pending when() of process who
IsReleased(ws, p, who) == \E i \in 1..Len(ws) : ws[i].who = who /\ ws[i].target <= p

\* when(target) by process who in phase ph with pending waiters ws:
\* resolved tells whether the promise is already resolved
When(ws, ph, target, who) ==
  IF ph >= target THEN [resolved |-> TRUE, ws |-> ws]
  ELSE [resolved |-> FALSE, ws |-> Append(ws, [who |-> who, target |-> target])]

\* the effect of an assignment phase = p on the calls that wait
ReleaseRuns(rs, ws, p) ==
  [r \in 1..MaxRuns |->
     IF IsReleased(ws, p, Proc("main", r)) \/ IsReleased(ws, p, Proc("getApp", r))
     THEN [rs[r] EXCEPT !.released = TRUE] ELSE rs[r]]

\* the effect of an assignment phase = p on the constructor's continuation
ReleaseCtor(c, ws, p) ==
  IF IsReleased(ws, p, Proc("ctor", 0)) /\ c = "waiting" THEN "queued" ELSE c

\* history: the steps a call of the bootstrap function has taken
Step(run, name) == [run EXCEPT !.trace = Append(@, name)]

RendererIdle ==
  /\ renderer = "none"
  /\ phase = Uninitialized
  /\ phaseWaits = <<>>
  /\ ctor = "none"
  /\ adapterP = [state |-> "none", fields |-> {}]
  /\ main = [mode |-> "production", initOptions |-> NoOptions, renderObject |-> {},
             hasRenderObject |-> FALSE, adapter |-> FALSE, adapterCalls |-> 0,
             ctorTrace |-> <<>>]
  /\ runs = [r \in 1..MaxRuns |-> IdleRun]
  /\ nRuns = 0

\* createRenderer as it would be with the check of its argument made after
\* RendererMain has been instantiated
CreateRenderer_lateCheck(isFunction) ==
  /\ renderer = "none"
  /\ LET w == When(phaseWaits, phase, OptionsResolved, Proc("ctor", 0))
     IN /\ renderer' = IF isFunction THEN "created" ELSE "failed"
        /\ phaseWaits' = w.ws
        /\ ctor' = IF w.resolved THEN "queued" ELSE "waiting"
  /\ UNCHANGED <<phase, adapterP, main, runs, nRuns>>
  /\ UNCHANGED cvars

\* createRenderer (renderer source 98-114) and, for a function, the
\* constructor of RendererMain (34-46), which only registers the
\* continuation on when(OptionsResolved)
CreateRenderer(isFunction) ==
  /\ renderer = "none"
  /\ IF isFunction
     THEN LET w == When(phaseWaits, phase, OptionsResolved, Proc("ctor", 0))
          IN /\ renderer' = "created"
             /\ phaseWaits' = w.ws
             /\ ctor' = IF w.resolved THEN "queued" ELSE "waiting"
     ELSE /\ renderer' = "failed"
          /\ UNCHANGED <<phaseWaits, ctor>>
  /\ UNCHANGED <<phase, adapterP, main, runs, nRuns>>
  /\ UNCHANGED cvars

\* options.plugins with its default [] (renderer source 50)
PluginsOf(options) == IF options.plugins.given THEN options.plugins.list ELSE <<>>

\* this.initOptions.packages ?? [] (renderer source 67)
PackagesOf(options) == IF options.packages.given THEN options.packages.list ELSE <<>>

\* A call of the bootstrap function (110-113): main runs up to its first
\* await (49-63).  schemaOk tells whether schemaService.initialize returns
\* or throws.
BootstrapCall(options, schemaOk) ==
  /\ renderer = "created"
  /\ nRuns < MaxRuns
  /\ LET r == nRuns + 1
         main1 == [main EXCEPT !.mode = IF options.mode # Undefined THEN options.mode ELSE @,
                               !.initOptions = options,
                               !.adapter = TRUE]
     IN /\ nRuns' = r
        /\ main' = main1
        /\ IF ~schemaOk
           THEN /\ runs' = [runs EXCEPT ![r] =
                              [@ EXCEPT !.pc = "done", !.options = options,
                                        !.result = "rejected"]]
                /\ UNCHANGED <<phase, phaseWaits, ctor>>
           ELSE LET w == When(Kept(phaseWaits, OptionsResolved), OptionsResolved, Ready,
                              Proc("main", r))
                    rs == ReleaseRuns(runs, phaseWaits, OptionsResolved)
                    run == Step(Step(Step(rs[r], "schema.initialize"),
                                     "codeRuntime.initialize"), "phase=OptionsResolved")
                IN /\ phase' = OptionsResolved
                   /\ ctor' = ReleaseCtor(ctor, phaseWaits, OptionsResolved)
                   /\ phaseWaits' = w.ws
                   /\ runs' = [rs EXCEPT ![r] =
                                 [run EXCEPT !.pc = "awaitReady", !.options = options,
                                             !.released = w.resolved,
                                             !.result = "pending"]]
  /\ UNCHANGED <<renderer, adapterP>>
  /\ UNCHANGED cvars

\* the continuation as it would be if it did not wait for OptionsResolved
CtorContinuation_eager(how, fields) ==
  /\ ctor \in {"queued", "waiting"}
  /\ ctor' = "awaitAdapter"
  /\ adapterP' = [state |-> "resolved", fields |-> fields]
  /\ main' = [main EXCEPT !.adapterCalls = @ + 1, !.ctorTrace = Append(@, "adapter")]
  /\ UNCHANGED <<renderer, phase, phaseWaits, runs, nRuns>>
  /\ UNCHANGED cvars

\* The constructor's continuation up to its await (35-43): how is "throws",
\* "value" (the adapter returns a render object) or "promise".
CtorContinuation(how, fields) ==
  /\ ctor = "queued"
  /\ CASE how = "throws" ->
            /\ ctor' = "failed"
            /\ adapterP' = [state |-> "threw", fields |-> {}]
       [] how = "value" ->
            /\ ctor' = "awaitAdapter"
            /\ adapterP' = [state |-> "resolved", fields |-> fields]
       [] how = "promise" ->
            /\ ctor' = "awaitAdapter"
            /\ adapterP' = [state |-> "pending", fields |-> {}]
  /\ main' = [main EXCEPT !.adapterCalls = @ + 1, !.ctorTrace = Append(@, "adapter")]
  /\ UNCHANGED <<renderer, phase, phaseWaits, runs, nRuns>>
  /\ UNCHANGED cvars

\* the promise the adapter returned is settled
AdapterSettle(ok, fields) ==
  /\ adapterP.state = "pending"
  /\ adapterP' = IF ok THEN [state |-> "resolved", fields |-> fields]
                  ELSE [state |-> "rejected", fields |-> {}]
  /\ UNCHANGED <<renderer, phase, phaseWaits, ctor, main, runs, nRuns>>
  /\ UNCHANGED cvars

\* the continuation after await this.adapter(renderContext) (43-45)
CtorResume ==
  /\ ctor = "awaitAdapter"
  /\ adapterP.state \in {"resolved", "rejected"}
  /\ IF adapterP.state = "rejected"
     THEN /\ ctor' = "failed"
          /\ UNCHANGED <<phase, phaseWaits, main, runs>>
     ELSE /\ ctor' = "done"
          /\ main' = [main EXCEPT !.renderObject = adapterP.fields, !.hasRenderObject = TRUE,
                                  !.ctorTrace = @ \o <<"adapter resolved", "phase=Ready">>]
          /\ phase' = Ready
          /\ phaseWaits' = Kept(phaseWaits, Ready)
          /\ runs' = ReleaseRuns(runs, phaseWaits, Ready)
  /\ UNCHANGED <<renderer, adapterP, nRuns>>
  /\ UNCHANGED cvars

\* main after await when(Ready): registerPlugin(plugins) is called (65);
\* throws tells whether the call throws instead of returning a promise
MainAfterReady(r, throws) ==
  /\ runs[r].pc = "awaitReady"
  /\ runs[r].released
  /\ runs' = [runs EXCEPT ![r] =
       IF throws
       THEN [@ EXCEPT !.pc = "done", !.result = "rejected", !.regP = "threw"]
       ELSE [Step(@, "registerPlugin") EXCEPT !.pc = "awaitRegister", !.released = FALSE,
                                               !.regP = "pending",
                                               !.regArg = PluginsOf(runs[r].options)]]
  /\ UNCHANGED <<renderer, phase, phaseWaits, ctor, adapterP, main, nRuns>>
  /\ UNCHANGED cvars

\* the promise of registerPlugin is settled
RegisterSettle(r, ok) ==
  /\ runs[r].regP = "pending"
  /\ runs' = [runs EXCEPT ![r] =
       IF ok THEN [Step(@, "registerPlugin resolved") EXCEPT !.regP = "resolved"]
       ELSE [@ EXCEPT !.regP = "rejected"]]
  /\ UNCHANGED <<renderer, phase, phaseWaits, ctor, adapterP, main, nRuns>>
  /\ UNCHANGED cvars

\* main as it would be with the await of loadPackages left out
MainAfterRegister_noAwait(r) ==
  /\ runs[r].pc = "awaitRegister"
  /\ runs[r].regP \in {"resolved", "rejected"}
  /\ IF runs[r].regP = "rejected"
     THEN /\ runs' = [runs EXCEPT ![r] = [@ EXCEPT !.pc = "done", !.result = "rejected"]]
          /\ UNCHANGED <<phase, phaseWaits>>
     ELSE LET rs == ReleaseRuns(runs, phaseWaits, AfterInitPackageLoad)
          IN /\ phase' = AfterInitPackageLoad
             /\ phaseWaits' = Kept(phaseWaits, AfterInitPackageLoad)
             /\ runs' = [rs EXCEPT ![r] =
                           [Step(Step(@, "loadPackages"), "phase=AfterInitPackageLoad")
                              EXCEPT !.pc = "mainDone", !.loadP = "pending",
                                     !.loadArg = PackagesOf(main.initOptions)]]
  /\ UNCHANGED <<renderer, ctor, adapterP, main, nRuns>>
  /\ UNCHANGED cvars

\* main after await registerPlugin: loadPackages is called (67)
MainAfterRegister(r) ==
  /\ runs[r].pc = "awaitRegister"
  /\ runs[r].regP \in {"resolved", "rejected"}
  /\ runs' = [runs EXCEPT ![r] =
       IF runs[r].regP = "rejected"
       THEN [@ EXCEPT !.pc = "done", !.result = "rejected"]
       ELSE [Step(@, "loadPackages") EXCEPT !.pc = "awaitLoad", !.loadP = "pending",
                                             !.loadArg = PackagesOf(main.initOptions)]]
  /\ UNCHANGED <<renderer, phase, phaseWaits, ctor, adapterP, main, nRuns>>
  /\ UNCHANGED cvars

\* the promise of loadPackages is settled
LoadSettle(r, ok) ==
  /\ runs[r].loadP = "pending"
  /\ runs' = [runs EXCEPT ![r] =
       IF ok THEN [Step(@, "loadPackages resolved") EXCEPT !.loadP = "resolved"]
       ELSE [@ EXCEPT !.loadP = "rejected"]]
  /\ UNCHANGED <<renderer, phase, phaseWaits, ctor, adapterP, main, nRuns>>
  /\ UNCHANGED cvars

\* main after await loadPackages: the last phase is set and main returns (69)
MainAfterLoad(r) ==
  /\ runs[r].pc = "awaitLoad"
  /\ runs[r].loadP \in {"resolved", "rejected"}
  /\ IF runs[r].loadP = "rejected"
     THEN /\ runs' = [runs EXCEPT ![r] = [@ EXCEPT !.pc = "done", !.result = "rejected"]]
          /\ UNCHANGED <<phase, phaseWaits>>
     ELSE LET rs == ReleaseRuns(runs, phaseWaits, AfterInitPackageLoad)
          IN /\ phase' = AfterInitPackageLoad
             /\ phaseWaits' = Kept(phaseWaits, AfterInitPackageLoad)
             /\ runs' = [rs EXCEPT ![r] =
                           [Step(@, "phase=AfterInitPackageLoad") EXCEPT !.pc = "mainDone"]]
  /\ UNCHANGED <<renderer, ctor, adapterP, main, nRuns>>
  /\ UNCHANGED cvars

\* the bootstrap function after await rendererMain.main: getApp is called
\* and runs up to its await (112, 72-73)
GetAppCall(r) ==
  /\ runs[r].pc = "mainDone"
  /\ LET w == When(phaseWaits, phase, AfterInitPackageLoad, Proc("getApp", r))
     IN /\ phaseWaits' = w.ws
        /\ runs' = [runs EXCEPT ![r] = [@ EXCEPT !.pc = "awaitApp", !.released = w.resolved]]
  /\ UNCHANGED <<renderer, phase, ctor, adapterP, main, nRuns>>
  /\ UNCHANGED cvars

\* the application object (76-88); a field of the render object replaces a
\* field of the same name written before the spread
Application(m) ==
  [built |-> TRUE,
   options |-> m.initOptions,
   mode |-> IF "mode" \in m.renderObject THEN "renderObject.mode" ELSE m.mode,
   schema |-> "schemaService",
   packageManager |-> "packageManagementService",
   fields |-> m.renderObject,
   use |-> "extensionHostService.registerPlugin",
   frozen |-> TRUE]

\* getApp after await when(AfterInitPackageLoad): the bootstrap promise is
\* resolved with the application (73-88)
GetAppResume(r) ==
  /\ runs[r].pc = "awaitApp"
  /\ runs[r].released
  /\ runs' = [runs EXCEPT ![r] =
       [Step(@, "application") EXCEPT !.pc = "done", !.result = "resolved",
                                      !.app = Application(main)]]
  /\ UNCHANGED <<renderer, phase, phaseWaits, ctor, adapterP, main, nRuns>>
  /\ UNCHANGED cvars

\* the store of the renderer specification: constructed without options
ConfigIdle ==
  /\ config = [k \in Keys |-> Undefined]
  /\ strictMode = STRICT_PLUGIN_MODE_DEFAULT
  /\ setterValidator = DefaultValidator
  /\ waits = [k \in Keys |-> <<>>]
  /\ subs = <<>>
  /\ events = <<>>
  /\ last = NoCall
  /\ nCalls = 0

Init == ConfigInit /\ RendererIdle

RendererInit == ConfigIdle /\ RendererIdle

RendererNext ==
  \/ \E isFunction \in BOOLEAN : CreateRenderer(isFunction)
  \/ \E options \in AppOptionsSet, schemaOk \in BOOLEAN : BootstrapCall(options, schemaOk)
  \/ \E how \in {"throws", "value", "promise"}, fields \in RenderObjects :
       CtorContinuation(how, fields)
  \/ \E ok \in BOOLEAN, fields \in RenderObjects : AdapterSettle(ok, fields)
  \/ CtorResume
  \/ \E r \in 1..MaxRuns, throws \in BOOLEAN : MainAfterReady(r, throws)
  \/ \E r \in 1..MaxRuns, ok \in BOOLEAN : RegisterSettle(r, ok)
  \/ \E r \in 1..MaxRuns : MainAfterRegister(r)
  \/ \E r \in 1..MaxRuns, ok \in BOOLEAN : LoadSettle(r, ok)
  \/ \E r \in 1..MaxRuns : MainAfterLoad(r)
  \/ \E r \in 1..MaxRuns : GetAppCall(r)
  \/ \E r \in 1..MaxRuns : GetAppResume(r)

RendererSpec == RendererInit /\ [][RendererNext]_vars

Next ==
  \/ \E key \in Keys, value \in Vals : Set(key, value)
  \/ \E arg \in SetConfigArgs : SetConfig(arg)
  \/ \E key \in Keys : OnceGot(key)
  \/ \E a \in OnGotArgs : OnGot(a[1], a[2])
  \/ \E sid \in 1..Len(subs) : Unsubscribe(sid)

Spec == Init /\ [][Next]_vars

(***************************************************************************)
(* Properties of the Configuration store.                                  *)
(***************************************************************************)
SubIds == 1..Len(subs)

\* number of calls that notifyGot made of the callable of registration sid
Calls(evs, sid) == Cardinality({i \in 1..Len(evs) : evs[i].e = "call" /\ evs[i].sid = sid})

CallsWith(evs, sid, val) ==
  Cardinality({i \in 1..Len(evs) : evs[i].e = "call" /\ evs[i].sid = sid /\ evs[i].val = val})

\* set(key, value) writes: the store is not strict or the validator answers true
Accepted(key, value) == ~strictMode \/ setterValidator[key, value] = VTrue

SetStep == last'.op = "set" /\ nCalls' = nCalls + 1

SetConfigStep == last'.op = "setConfig" /\ nCalls' = nCalls + 1

OffStep == last'.op = "off" /\ nCalls' = nCalls + 1

\* C1: a promise that onceGot(K) returned while K was undefined is pending,
\* with has(K) false and its resolver never called, as long as no set on K
\* has succeeded since; from the first successful set(K, v) on it is
\* resolved with that v, and its resolver has been called exactly once,
\* however many sets on K followed.
C1_OnceGotResolvesOnce ==
  \A s \in SubIds :
    (subs[s].kind = "onceGot" /\ subs[s].seen = Undefined) =>
      IF subs[s].due = <<>>
      THEN subs[s].pstate = "pending" /\ subs[s].rcalls = 0 /\ ~Has(config, subs[s].key)
      ELSE subs[s].pstate = "resolved" /\ subs[s].pvalue = subs[s].due[1] /\ subs[s].rcalls = 1

\* C2: a callback registered with onGot(K, cb) and not unsubscribed since
\* has been invoked by the successful sets on K made since its registration
\* once each, with their values in call order (for two sets: exactly twice,
\* with v1 then v2).
C2_Claim ==
  \A s \in SubIds :
    (subs[s].kind = "onGot" /\ ~subs[s].cancelled) => subs[s].got = subs[s].due

\* C3: a set(K, v) step writes v under K, and nothing else, when the store
\* is not strict or the validator answers neither false nor a string;
\* otherwise the configuration and has(K) are what they were.
C3_SetWritesIffValid ==
  [][SetStep =>
       LET k == last'.key
           v == last'.value
       IN IF Accepted(k, v)
          THEN config' = [config EXCEPT ![k] = v]
          ELSE config' = config /\ Has(config', k) = Has(config, k)]_vars

\* a strict store has just refused a value because the validator answered
\* with the empty string
C3_Witness ==
  /\ last.op = "set" /\ strictMode
  /\ setterValidator[last.key, last.value] = VEmpty
  /\ config[last.key] # last.value

C8_Claim ==
  [][/\ \A s \in SubIds : subs[s].offs >= 1 => subs'[s].got = subs[s].got
     /\ (OffStep /\ subs[last'.sid].offs >= 1) => waits' = waits]_vars

\* C9: onGot(K, cb) has invoked cb at once, exactly once and with the
\* current value, if K held a defined value and not at all if it did not;
\* in both cases cb is then invoked by each later successful set on K, as
\* long as it is not unsubscribed.
C9_Claim ==
  \A s \in SubIds :
    subs[s].kind = "onGot" =>
      /\ subs[s].now = IF subs[s].seen # Undefined THEN <<subs[s].seen>> ELSE <<>>
      /\ ~subs[s].cancelled => subs[s].got = subs[s].due

\* C10: setConfig with a plain object leaves every key it was given in the
\* state its own set leaves it in: an accepted key holds its new value and
\* its waiters were called once with it, a rejected key holds its old value
\* and its waiters were not called; keys it was not given are untouched.
\* With anything but a plain object nothing changes and nothing is called.
C10_SetConfigPerKey ==
  [][SetConfigStep =>
       LET arg == last'.arg
           given == {arg.entries[i].key : i \in 1..Len(arg.entries)}
       IN IF arg.kind \in {"plainObject", "nullProto"}
          THEN /\ \A i \in 1..Len(arg.entries) :
                    LET k == arg.entries[i].key
                        v == arg.entries[i].value
                    IN IF Accepted(k, v)
                       THEN /\ config'[k] = v
                            /\ \A j \in 1..Len(waits[k]) :
                                 CallsWith(events', waits[k][j].sid, v) = 1
                       ELSE /\ config'[k] = config[k]
                            /\ \A j \in 1..Len(waits[k]) : Calls(events', waits[k][j].sid) = 0
               /\ \A k \in Keys \ given : config'[k] = config[k]
          ELSE config' = config /\ waits' = waits /\ subs' = subs /\ events' = <<>>]_vars

\* a setConfig has just been refused one key, has written another and has
\* called a waiter of the written key
C10_Witness ==
  /\ last.op = "setConfig"
  /\ \E i, j \in 1..Len(last.arg.entries) :
       LET ei == last.arg.entries[i]
           ej == last.arg.entries[j]
       IN /\ ~Accepted(ei.key, ei.value)
          /\ Accepted(ej.key, ej.value)
          /\ config[ej.key] = ej.value
          /\ \E n \in 1..Len(events) : events[n].e = "call" /\ events[n].key = ej.key

\* the registrations that the last call's notifications called, in call order
CallOrder(evs) == SelectSeq(evs, LAMBDA x : x.e = "call")

\* a registration made by a call of the program itself; among these the
\* numbering is the order of their setWait calls
Direct(ss, sid) == ~ss[sid].nested

\* C11: a successful set(K, v) calls the waiters registered on K from the
\* most recently registered to the least recently registered: of two
\* waiters it calls, the one registered later is called first.
C11_Claim ==
  [][(SetStep /\ Accepted(last'.key, last'.value)) =>
       LET order == CallOrder(events')
       IN \A i, j \in 1..Len(order) :
            (i < j /\ Direct(subs', order[i].sid) /\ Direct(subs', order[j].sid))
              => order[i].sid > order[j].sid]_vars

\* C16: a set(K, v) that the validator of a strict store rejects calls no
\* waiter and leaves the wait list of every key as it was: no registration
\* is called, and a pending onceGot promise stays pending.
C16_RejectedSetFiresNothing ==
  [][(SetStep /\ ~Accepted(last'.key, last'.value)) =>
       /\ waits' = waits
       /\ CallOrder(events') = <<>>
       /\ \A s \in SubIds : /\ subs'[s].got = subs[s].got
                             /\ subs'[s].pstate = subs[s].pstate
                             /\ subs'[s].rcalls = subs[s].rcalls]_vars

\* a set has just been rejected on a key that a pending onceGot promise and
\* an onGot subscriber wait for
C16_Witness ==
  /\ last.op = "set" /\ ~Accepted(last.key, last.value)
  /\ \E i, j \in 1..Len(waits[last.key]) :
       /\ waits[last.key][i].once /\ subs[waits[last.key][i].sid].pstate = "pending"
       /\ ~waits[last.key][j].once /\ subs[waits[last.key][j].sid].got = <<>>

\* C17: what a callback does to the subscriptions of a key during a
\* notification is kept: a callback registered with onGot from inside a
\* running callback, and not unsubscribed, has been called by every
\* successful set on its key made since, and a callback that has
\* unsubscribed itself from inside a notification is not called again.
C17_Claim ==
  [][\A s \in SubIds :
       /\ (subs[s].nested /\ ~subs'[s].cancelled) => subs'[s].got = subs'[s].due
       /\ (subs[s].fn = "g" /\ subs[s].cancelled) => subs'[s].got = subs[s].got]_vars

\* the onGot registrations that a call's notifications called, in call order
OnGotOrder(evs, ss) ==
  LET q == SelectSeq(evs, LAMBDA x : x.e = "call" /\ ss[x.sid].kind = "onGot")
  IN [i \in 1..Len(q) |-> q[i].sid]

\* the call subscribed or unsubscribed nothing, inside a callback included
NoChange(evs) == \A i \in 1..Len(evs) : evs[i].e \notin {"reg", "off"}

\* C18: of two successful sets on a key that follow each other with no
\* subscription or unsubscription in between, the second calls the onGot
\* subscribers of the key in the same order as the first.
C18_Claim ==
  [][(/\ last.op = "set" /\ Accepted(last.key, last.value) /\ NoChange(events)
      /\ SetStep /\ last'.key = last.key /\ Accepted(last'.key, last'.value)
      /\ NoChange(events'))
       => OnGotOrder(events', subs') = OnGotOrder(events, subs)]_vars

\* C19: between calls, a key K with has(K) true has no once-waiter in its
\* wait list, and no promise that onceGot(K) returned is pending.
C19_Claim ==
  \A k \in Keys :
    Has(config, k) =>
      /\ \A i \in 1..Len(waits[k]) : ~waits[k][i].once
      /\ \A s \in SubIds :
           (subs[s].kind = "onceGot" /\ subs[s].key = k) => subs[s].pstate # "pending"

(***************************************************************************)
(* Properties of the renderer bootstrap.                                   *)
(***************************************************************************)
\* the steps that run without a further call of the program: queued
\* continuations and the settling of pending promises
InternalNext ==
  \/ \E how \in {"throws", "value", "promise"}, fields \in RenderObjects :
       CtorContinuation(how, fields)
  \/ \E ok \in BOOLEAN, fields \in RenderObjects : AdapterSettle(ok, fields)
  \/ CtorResume
  \/ \E r \in 1..MaxRuns, throws \in BOOLEAN : MainAfterReady(r, throws)
  \/ \E r \in 1..MaxRuns, ok \in BOOLEAN : RegisterSettle(r, ok)
  \/ \E r \in 1..MaxRuns : MainAfterRegister(r)
  \/ \E r \in 1..MaxRuns, ok \in BOOLEAN : LoadSettle(r, ok)
  \/ \E r \in 1..MaxRuns : MainAfterLoad(r)
  \/ \E r \in 1..MaxRuns : GetAppCall(r)
  \/ \E r \in 1..MaxRuns : GetAppResume(r)

\* nothing is queued and no promise is pending: only a new call can act
Quiet == ~ENABLED InternalNext

AdapterFailed == adapterP.state \in {"threw", "rejected"}

\* a failure the bootstrap call number r has met
Failure(r) ==
  /\ runs[r].result # "none"
  /\ \/ AdapterFailed
     \/ runs[r].regP \in {"threw", "rejected"}
     \/ runs[r].loadP = "rejected"

\* C4: a bootstrap call that has met a failure of the adapter, of
\* registerPlugin or of loadPackages never resolves with an application,
\* and once nothing is queued or pending any more its promise is rejected.
C4_Claim ==
  \A r \in 1..MaxRuns :
    Failure(r) => /\ runs[r].result # "resolved"
                  /\ Quiet => runs[r].result = "rejected"

\* C5: no step lowers the lifecycle phase.
C5_Claim == [][phase' >= phase]_vars

MainSteps ==
  <<"schema.initialize", "codeRuntime.initialize", "phase=OptionsResolved",
    "registerPlugin", "registerPlugin resolved", "loadPackages", "loadPackages resolved",
    "phase=AfterInitPackageLoad", "application">>

CtorSteps == <<"adapter", "adapter resolved", "phase=Ready">>

IsPrefix(s, t) == Len(s) <= Len(t) /\ s = SubSeq(t, 1, Len(s))

C12_NonFunctionAdapterFails ==
  renderer = "failed" =>
    /\ ctor = "none" /\ phaseWaits = <<>>
    /\ phase = Uninitialized
    /\ main.adapter = FALSE /\ main.initOptions = NoOptions /\ main.adapterCalls = 0
    /\ nRuns = 0 /\ \A r \in 1..MaxRuns : runs[r] = IdleRun
    /\ ~ENABLED RendererNext

\* createRenderer was called with an adapter that is not a function
C12_Witness == renderer = "failed" /\ nRuns = 0

\* the mode an application has by the options of its bootstrap call
ModeOf(options) == IF options.mode # Undefined THEN options.mode ELSE "production"

\* C13: the application a bootstrap call resolves with has the mode of the
\* call's options ('production' when none is given), the schema and package
\* services as schema and packageManager, every field of the adapter's
\* render object, a use method that delegates to registerPlugin, and is
\* frozen; an application that has been built never changes.
C13_Claim ==
  [][\A r \in 1..MaxRuns :
       /\ runs'[r].result = "resolved" =>
            LET app == runs'[r].app
            IN /\ app.built /\ app.frozen
               /\ app.mode = ModeOf(runs'[r].options)
               /\ app.schema = "schemaService"
               /\ app.packageManager = "packageManagementService"
               /\ main'.renderObject \subseteq app.fields
               /\ app.use = "extensionHostService.registerPlugin"
       /\ runs[r].app.built => runs'[r].app = runs[r].app]_vars

\* The event loop runs every queued continuation, and a promise handed out
\* by the adapter, registerPlugin or loadPackages is settled at some time.
LiveSpec == RendererInit /\ [][RendererNext]_vars /\ WF_vars(InternalNext)

\* the adapter, registerPlugin and loadPackages have not failed
Resolving ==
  /\ ~AdapterFailed
  /\ \A r \in 1..MaxRuns : /\ runs[r].regP \notin {"threw", "rejected"}
                            /\ runs[r].loadP # "rejected"

\* C14: if the adapter invocation, registerPlugin and loadPackages never
\* fail (with the fairness of LiveSpec: each resolves), the first call of
\* the bootstrap function, once suspended in main, is eventually resolved
\* with an application.
C14_Claim ==
  ([]Resolving) =>
    ((runs[1].result = "pending") ~> (runs[1].result = "resolved" /\ runs[1].app.built))

\* C15: the adapter of a renderer is invoked at most once, however many
\* bootstrap calls are made, and the step that invokes it starts in a state
\* where main has stored the adapter and the phase has reached
\* OptionsResolved.
C15_AdapterOnce ==
  [][main'.adapterCalls # main.adapterCalls =>
       /\ main.adapterCalls = 0 /\ main'.adapterCalls = 1
       /\ main.adapter
       /\ phase >= OptionsResolved]_vars

\* every bootstrap call has been made and has resolved, the adapter having
\* been invoked once
C15_Witness ==
  /\ nRuns = MaxRuns /\ nRuns >= 2
  /\ \A r \in 1..MaxRuns : runs[r].result = "resolved"
  /\ main.adapterCalls = 1

====
